---------------------------- MODULE Spec2Model ----------------------------
(***************************************************************************)
(* Model of the two framework models of the repository:                   *)
(*                                                                         *)
(*   Algorithm.Framework/Execution/ImmediateExecutionModel.py              *)
(*   Algorithm.Framework/Risk/MaximumDrawdownPercentPerSecurity.py         *)
(*                                                                         *)
(* Quantities are whole units.  Percentages are whole percents, so the     *)
(* default maximumDrawdownPercent 0.05 is 5 and a profit of -0.06 is -6.   *)
(* The engine the models talk to (algorithm.Securities,                    *)
(* algorithm.Transactions, algorithm.MarketOrder) is the environment: it   *)
(* keeps the holdings and the open orders.                                 *)
(***************************************************************************)
EXTENDS Integers, Sequences, FiniteSets

VARIABLES
    Securities,             \* algorithm.Securities: Symbol -> security
    OpenOrders,             \* algorithm.Transactions: the open orders
    epc,                    \* position of Execute: idle, loop, done, error
    execTargets,            \* Execute's argument `targets`
    idx,                    \* number of targets the for loop has taken
    submitted,              \* the algorithm.MarketOrder calls of this Execute
    startSecurities,        \* Securities when Execute was called
    startOpenOrders,        \* OpenOrders when Execute was called
    lastTargets,            \* targets of the last Execute that returned
    repeated,               \* this Execute has the targets of the last one
    orderCount,             \* market orders submitted so far
    maximumDrawdownPercent, \* self.maximumDrawdownPercent
    ctorArg,                \* the constructor's argument
    rpc,                    \* position of ManageRisk: idle, scan, done
    callerTargets,          \* the list object the caller passed
    targets,                \* ManageRisk's local variable `targets`
    aliased,                \* `targets` still is the caller's list object
    toScan,                 \* securities the for loop has not yet taken
    callSecurities,         \* Securities when ManageRisk was called
    callTargets,            \* callerTargets when ManageRisk was called
    prevOut,                \* what the previous ManageRisk call returned
    calls                   \* ManageRisk calls made with these inputs

execVars == <<epc, execTargets, idx, submitted, startSecurities,
              startOpenOrders, lastTargets, repeated, orderCount>>
riskVars == <<maximumDrawdownPercent, ctorArg, rpc, callerTargets, targets,
              aliased, toScan, callSecurities, callTargets, prevOut, calls>>
vars == <<Securities, OpenOrders, execVars, riskVars>>

---------------------------------------------------------------------------
(* Bounds *)

MaxTargets == 2
MaxQty == 1
MaxOrders == 2

\* maximumDrawdownPercent = 0.05, in percents
DefaultMaximumDrawdownPercent == 5

Symbols == {"X", "Y"}
Quantities == -1 .. MaxQty

\* PortfolioTarget(symbol, quantity)
PortfolioTarget(symbol, quantity) == [Symbol |-> symbol, Quantity |-> quantity]

Targets == {PortfolioTarget(s, q) : s \in Symbols, q \in Quantities}

SeqsUpTo(S, n) == UNION {[1 .. k -> S] : k \in 0 .. n}

TargetLists == SeqsUpTo(Targets, MaxTargets)

\* no list: differs from every list of targets
None == <<PortfolioTarget("none", 0)>>

\* A security with no position yet, as the data feed adds it.
NewSecurity == [Quantity |-> 0, Invested |-> FALSE, UnrealizedProfitPercent |-> 0]

\* algorithm.Securities with no security in it
EmptyMap == [x \in {} |-> NewSecurity]

\* abs(x)
Abs(x) == IF x < 0 THEN -x ELSE x

\* -maximumDrawdownPercent, without abs
NegateOnly(m) == -m

\* __init__: self.maximumDrawdownPercent = -abs(maximumDrawdownPercent)
Construct(m) == -Abs(m)

---------------------------------------------------------------------------
(* What the engine holds, counted directly *)

RECURSIVE SumTo(_, _, _)
\* the quantities of the first n of `orders` that are for symbol s, summed
SumTo(orders, s, n) ==
    IF n = 0 THEN 0
    ELSE SumTo(orders, s, n - 1)
         + (IF orders[n].Symbol = s THEN orders[n].Quantity ELSE 0)

\* holding quantity of s plus the quantities of all open orders for s
Position(secs, orders, s) == secs[s].Quantity + SumTo(orders, s, Len(orders))

\* The most market orders Execute(ts) can submit from the current state: a
\* target needs none when it is the first for its instrument and the
\* position already equals it.  Keeps orderCount within MaxOrders.
OrdersNeeded(ts) ==
    Cardinality({i \in 1 .. Len(ts) :
        ~ /\ ts[i].Symbol \in DOMAIN Securities
          /\ \A j \in 1 .. i - 1 : ts[j].Symbol # ts[i].Symbol
          /\ Position(Securities, OpenOrders, ts[i].Symbol) = ts[i].Quantity})

---------------------------------------------------------------------------
(* ImmediateExecutionModel *)

RECURSIVE SumQuantity(_)
\* sum([x.Quantity for x in ...]); the sum of an empty list is 0
SumQuantity(orders) ==
    IF orders = <<>> THEN 0
    ELSE Head(orders).Quantity + SumQuantity(Tail(orders))

\* GetOpenOrders without its symbol argument: every open order
AllOpenOrders(orders, symbol) == orders

\* algorithm.Transactions.GetOpenOrders(symbol)
GetOpenOrders(orders, symbol) ==
    SelectSeq(orders, LAMBDA x : x.Symbol = symbol)

\* open orders left out of the position
NoOpenQuantity(orders, symbol) == 0

\* line 32: open_quantity
OpenQuantity(orders, symbol) == SumQuantity(GetOpenOrders(orders, symbol))

\* the position as it was when Execute was called
StaleExisting(secs, orders, symbol) ==
    startSecurities[symbol].Quantity
        + SumQuantity(SelectSeq(startOpenOrders, LAMBDA x : x.Symbol = symbol))

\* line 33: existing
Existing(secs, orders, symbol) ==
    secs[symbol].Quantity + OpenQuantity(orders, symbol)

\* existing - target.Quantity: the sides swapped
ReversedOrderQuantity(target, secs, orders) ==
    (secs[target.Symbol].Quantity
        + SumQuantity(SelectSeq(orders, LAMBDA x : x.Symbol = target.Symbol)))
    - target.Quantity

\* line 34: quantity
OrderQuantity(target, secs, orders) ==
    target.Quantity - Existing(secs, orders, target.Symbol)

\* the test of line 35 left out
AlwaysSubmit(quantity) == TRUE

\* line 35: if quantity != 0
ShouldSubmit(quantity) == quantity # 0

\* The engine's side of algorithm.MarketOrder(symbol, quantity): the order
\* is recorded as an open order, or it has filled by the time the call
\* returns and its quantity is in the holding.
OrderOpen(symbol, quantity) ==
    /\ OpenOrders' = Append(OpenOrders, [Symbol |-> symbol, Quantity |-> quantity])
    /\ UNCHANGED Securities

OrderFilled(symbol, quantity) ==
    /\ Securities' = [Securities EXCEPT
                        ![symbol].Quantity = @ + quantity,
                        ![symbol].Invested = (Securities[symbol].Quantity + quantity # 0)]
    /\ UNCHANGED OpenOrders

MarketOrder(symbol, quantity) ==
    /\ submitted' = Append(submitted, [Symbol |-> symbol, Quantity |-> quantity])
    /\ orderCount' = orderCount + 1
    /\ \/ OrderOpen(symbol, quantity)
       \/ OrderFilled(symbol, quantity)

\* Execute(self, algorithm, targets) is called
ExecuteCall ==
    /\ epc = "idle"
    /\ rpc = "idle"
    /\ \E ts \in TargetLists :
        /\ orderCount + OrdersNeeded(ts) <= MaxOrders
        /\ execTargets' = ts
        /\ repeated' = (ts = lastTargets)
    /\ epc' = "loop"
    /\ idx' = 0
    /\ submitted' = <<>>
    /\ startSecurities' = Securities
    /\ startOpenOrders' = OpenOrders
    /\ UNCHANGED <<Securities, OpenOrders, lastTargets, orderCount, riskVars>>

\* one pass of the for loop, lines 31-36
ExecuteTarget ==
    /\ epc = "loop"
    /\ idx < Len(execTargets)
    /\ LET target == execTargets[idx + 1] IN
        IF target.Symbol \notin DOMAIN Securities
        THEN \* algorithm.Securities[target.Symbol] raises
             /\ epc' = "error"
             /\ UNCHANGED <<idx, submitted, orderCount, Securities, OpenOrders>>
        ELSE LET quantity == OrderQuantity(target, Securities, OpenOrders) IN
             /\ idx' = idx + 1
             /\ epc' = "loop"
             /\ IF ShouldSubmit(quantity)
                THEN MarketOrder(target.Symbol, quantity)
                ELSE UNCHANGED <<submitted, orderCount, Securities, OpenOrders>>
    /\ UNCHANGED <<execTargets, startSecurities, startOpenOrders, lastTargets,
                   repeated, riskVars>>

\* the for loop is exhausted: Execute returns
ExecuteReturn ==
    /\ epc = "loop"
    /\ idx = Len(execTargets)
    /\ epc' = "done"
    /\ lastTargets' = execTargets
    /\ UNCHANGED <<Securities, OpenOrders, execTargets, idx, submitted,
                   startSecurities, startOpenOrders, repeated, orderCount, riskVars>>

\* the caller goes on after Execute returned or raised
ExecuteEnd ==
    /\ epc \in {"done", "error"}
    /\ epc' = "idle"
    /\ lastTargets' = IF epc = "error" THEN None ELSE lastTargets
    /\ execTargets' = <<>>
    /\ idx' = 0
    /\ submitted' = <<>>
    /\ startSecurities' = EmptyMap
    /\ startOpenOrders' = <<>>
    /\ repeated' = FALSE
    /\ UNCHANGED <<Securities, OpenOrders, orderCount, riskVars>>

\* The engine fills one open order: its quantity moves to the holding.
RemoveAt(s, i) == SubSeq(s, 1, i - 1) \o SubSeq(s, i + 1, Len(s))

Fill ==
    /\ epc = "idle"
    /\ rpc = "idle"
    /\ \E i \in 1 .. Len(OpenOrders) :
        LET o == OpenOrders[i] IN
        /\ o.Symbol \in DOMAIN Securities
        /\ OpenOrders' = RemoveAt(OpenOrders, i)
        /\ Securities' = [Securities EXCEPT
                            ![o.Symbol].Quantity = @ + o.Quantity,
                            ![o.Symbol].Invested =
                                (Securities[o.Symbol].Quantity + o.Quantity # 0)]
    /\ UNCHANGED <<execVars, riskVars>>

Extend(f, k, v) == [x \in DOMAIN f \cup {k} |-> IF x = k THEN v ELSE f[x]]
Without(f, k) == [x \in DOMAIN f \ {k} |-> f[x]]

\* ImmediateExecutionModel.OnSecuritiesChanged(algorithm, changes): pass.
\* The engine has added a security to the data feed, or removed one that
\* has neither a position nor an open order.
ExecutionOnSecuritiesChanged ==
    /\ epc = "idle"
    /\ rpc = "idle"
    /\ \/ \E s \in Symbols \ DOMAIN Securities :
            Securities' = Extend(Securities, s, NewSecurity)
       \/ \E s \in DOMAIN Securities :
            /\ Securities[s].Quantity = 0
            /\ GetOpenOrders(OpenOrders, s) = <<>>
            /\ Securities' = Without(Securities, s)
    /\ UNCHANGED <<OpenOrders, execVars, riskVars>>

InitExecVars ==
    /\ epc = "idle"
    /\ execTargets = <<>>
    /\ idx = 0
    /\ submitted = <<>>
    /\ startSecurities = EmptyMap
    /\ startOpenOrders = <<>>
    /\ lastTargets = None
    /\ repeated = FALSE
    /\ orderCount = 0

InitRiskVars ==
    /\ rpc = "idle"
    /\ callerTargets = <<>>
    /\ targets = <<>>
    /\ aliased = TRUE
    /\ toScan = {}
    /\ callSecurities = EmptyMap
    /\ callTargets = <<>>
    /\ prevOut = None
    /\ calls = 0

\* The execution model is constructed before the data feed has added a
\* security; nothing is held and no order is open.
InitExec ==
    /\ Securities = EmptyMap
    /\ OpenOrders = <<>>
    /\ InitExecVars
    /\ InitRiskVars
    /\ ctorArg = DefaultMaximumDrawdownPercent
    /\ maximumDrawdownPercent = Construct(ctorArg)

NextExec ==
    \/ ExecuteCall
    \/ ExecuteTarget
    \/ ExecuteReturn
    \/ ExecuteEnd
    \/ Fill
    \/ ExecutionOnSecuritiesChanged

SpecExec == InitExec /\ [][NextExec]_vars


---------------------------------------------------------------------------
(* Properties of ImmediateExecutionModel.Execute *)

\* the target the for loop takes next, in a state where it takes one
NextTarget == execTargets[idx + 1]

TakesTarget ==
    /\ epc = "loop"
    /\ idx < Len(execTargets)
    /\ NextTarget.Symbol \in DOMAIN Securities

\* target.Quantity - (holding + open orders) for the target taken next
Delta == NextTarget.Quantity - Position(Securities, OpenOrders, NextTarget.Symbol)

Distinct(ts) ==
    \A i, j \in 1 .. Len(ts) : i # j => ts[i].Symbol # ts[j].Symbol

TwiceDifferent(ts) ==
    \E i, j \in 1 .. Len(ts) :
        i < j /\ ts[i].Symbol = ts[j].Symbol /\ ts[i].Quantity # ts[j].Quantity

\* the delta of target i against the position when Execute was called
StaleDelta(ts, i) ==
    ts[i].Quantity - Position(startSecurities, startOpenOrders, ts[i].Symbol)

\* the delta of target i against the position the orders for the earlier
\* targets of this call have left: the quantity of the nearest earlier target
\* for the same instrument, or else the position when Execute was called
RereadDelta(ts, i) ==
    LET before == {j \in 1 .. i - 1 : ts[j].Symbol = ts[i].Symbol} IN
    IF before = {} THEN StaleDelta(ts, i)
    ELSE LET j == CHOOSE k \in before : \A m \in before : m <= k
         IN  ts[i].Quantity - ts[j].Quantity

RECURSIVE StaleOrders(_, _)
\* the orders for the first n targets, one per non-zero StaleDelta
StaleOrders(ts, n) ==
    IF n = 0 THEN <<>>
    ELSE IF StaleDelta(ts, n) # 0
         THEN Append(StaleOrders(ts, n - 1),
                     [Symbol |-> ts[n].Symbol, Quantity |-> StaleDelta(ts, n)])
         ELSE StaleOrders(ts, n - 1)

RECURSIVE RereadOrders(_, _)
\* the orders for the first n targets, one per non-zero RereadDelta
RereadOrders(ts, n) ==
    IF n = 0 THEN <<>>
    ELSE IF RereadDelta(ts, n) # 0
         THEN Append(RereadOrders(ts, n - 1),
                     [Symbol |-> ts[n].Symbol, Quantity |-> RereadDelta(ts, n)])
         ELSE RereadOrders(ts, n - 1)

InExecute == epc \in {"loop", "done", "error"}

\* C1: a pass of Execute's loop over a target whose delta, target.Quantity -
\* (holding + sum of the open orders for target.Symbol), is not zero submits
\* exactly one market order, for target.Symbol, with that delta as its signed
\* quantity.
C1_OrderIsDelta ==
    [][(TakesTarget /\ Delta # 0) =>
         /\ idx' = idx + 1
         /\ epc' = "loop"
         /\ submitted' = Append(submitted,
                [Symbol |-> NextTarget.Symbol, Quantity |-> Delta])
         /\ orderCount' = orderCount + 1]_vars

\* C1 witness: Execute has returned after one order that closed the gap
\* between a non-zero holding with no open order and the target.
C1_Witness ==
    /\ epc = "done"
    /\ Len(execTargets) = 1
    /\ startOpenOrders = <<>>
    /\ startSecurities[execTargets[1].Symbol].Quantity # 0
    /\ submitted = <<[Symbol |-> execTargets[1].Symbol,
                      Quantity |-> execTargets[1].Quantity
                          - startSecurities[execTargets[1].Symbol].Quantity]>>
    /\ submitted[1].Quantity # 0

\* C2: a pass of Execute's loop over a target whose quantity equals holding +
\* sum of the open orders for its instrument submits no order, raises no
\* error and leaves the engine as it was.
C2_NoOrderAtTarget ==
    [][(TakesTarget /\ Delta = 0) =>
         /\ idx' = idx + 1
         /\ epc' = "loop"
         /\ submitted' = submitted
         /\ orderCount' = orderCount
         /\ UNCHANGED <<Securities, OpenOrders>>]_vars

\* C2 witness: Execute has returned without an order for a target that two
\* open orders of opposite sign bring the holding to.
C2_Witness ==
    /\ epc = "done"
    /\ Len(execTargets) = 1
    /\ submitted = <<>>
    /\ LET open == GetOpenOrders(OpenOrders, execTargets[1].Symbol) IN
        /\ Len(open) = 2
        /\ open[1].Quantity * open[2].Quantity < 0
        /\ open[1].Quantity + open[2].Quantity # 0

C8_IndependentInOrder ==
    (InExecute /\ Distinct(execTargets)) =>
        submitted = StaleOrders(execTargets, idx)

\* C8 witness: Execute has returned after an order for each of two
\* instruments.
C8_Witness ==
    /\ epc = "done"
    /\ Len(execTargets) = 2
    /\ Distinct(execTargets)
    /\ Len(submitted) = 2
    /\ submitted[1].Symbol = execTargets[1].Symbol
    /\ submitted[2].Symbol = execTargets[2].Symbol

\* C10: with at most one target per instrument, when Execute has returned
\* holding + open orders equals the target for every targeted instrument; a
\* later Execute with the same targets submits nothing, whatever was filled
\* in between; and with no order open the holding equals the target.
C10_SteadyAfterExecute ==
    /\ (epc = "done" /\ Distinct(execTargets)) =>
        \A i \in 1 .. Len(execTargets) :
            Position(Securities, OpenOrders, execTargets[i].Symbol)
                = execTargets[i].Quantity
    /\ (InExecute /\ repeated /\ Distinct(execTargets)) => submitted = <<>>
    /\ (epc \in {"idle", "done"} /\ lastTargets # None /\ Distinct(lastTargets)
            /\ OpenOrders = <<>>) =>
        \A i \in 1 .. Len(lastTargets) :
            lastTargets[i].Symbol \in DOMAIN Securities =>
                Securities[lastTargets[i].Symbol].Quantity = lastTargets[i].Quantity

\* C10 witness: the second Execute with the same two targets has returned;
\* the order for one instrument has filled, the other is still open.
C10_Witness ==
    /\ epc = "done"
    /\ repeated
    /\ Len(execTargets) = 2
    /\ Distinct(execTargets)
    /\ Len(OpenOrders) = 1
    /\ \E i \in 1 .. 2 :
        /\ Securities[execTargets[i].Symbol].Quantity = execTargets[i].Quantity
        /\ execTargets[i].Quantity # 0
        /\ OpenOrders[1].Symbol # execTargets[i].Symbol

---------------------------------------------------------------------------
(* MaximumDrawdownPercentPerSecurity *)

\* the constructor's arguments: the default, its negative and zero
CtorArgs == {-DefaultMaximumDrawdownPercent, 0, DefaultMaximumDrawdownPercent}

\* unrealized profit percents around the default threshold
PnlValues == {-DefaultMaximumDrawdownPercent - 1, -DefaultMaximumDrawdownPercent,
              -DefaultMaximumDrawdownPercent + 1, 0}

\* pnl <= threshold instead of pnl <
BreachAtThreshold(security, threshold) ==
    /\ security.Invested
    /\ security.UnrealizedProfitPercent <= threshold

\* lines 37-41: the security is invested and its loss is past the threshold
Breach(security, threshold) ==
    /\ security.Invested
    /\ security.UnrealizedProfitPercent < threshold

\* the filter left out: the liquidation target is only appended
KeepTargets(ts, symbol) == ts

\* the filter's test inverted: x.Symbol == security.Symbol
KeepOnlyTargets(ts, symbol) == SelectSeq(ts, LAMBDA x : x.Symbol = symbol)

\* line 43: filter(lambda x: x.Symbol != security.Symbol, targets)
RemoveTargets(ts, symbol) == SelectSeq(ts, LAMBDA x : x.Symbol # symbol)

\* the targets removed from the list object itself
InPlace(a) == a

\* line 43: list(...) is a new list object, `targets` no longer names the
\* caller's list
AliasAfterFilter(a) == FALSE

\* ManageRisk(self, algorithm, targets) is called
ManageRiskCall ==
    /\ rpc = "idle"
    /\ epc = "idle"
    /\ \E ts \in TargetLists :
        /\ callerTargets' = ts
        /\ targets' = ts
        /\ callTargets' = ts
    /\ aliased' = TRUE
    /\ toScan' = DOMAIN Securities
    /\ callSecurities' = Securities
    /\ prevOut' = None
    /\ calls' = 1
    /\ rpc' = "scan"
    /\ UNCHANGED <<Securities, OpenOrders, execVars, maximumDrawdownPercent, ctorArg>>

\* one pass of the for loop over algorithm.Securities, lines 34-44; the
\* order in which the securities come is the engine's
ManageRiskSecurity ==
    /\ rpc = "scan"
    /\ \E symbol \in toScan :
        LET security == Securities[symbol] IN
        /\ toScan' = toScan \ {symbol}
        /\ IF Breach(security, maximumDrawdownPercent)
           THEN LET filtered == RemoveTargets(targets, symbol)
                    alias == AliasAfterFilter(aliased)
                IN  /\ targets' = Append(filtered, PortfolioTarget(symbol, 0))
                    /\ aliased' = alias
                    /\ callerTargets' = IF alias THEN targets' ELSE callerTargets
           ELSE UNCHANGED <<targets, aliased, callerTargets>>
    /\ UNCHANGED <<Securities, OpenOrders, execVars, maximumDrawdownPercent, ctorArg,
                   rpc, callSecurities, callTargets, prevOut, calls>>

\* line 46: return targets
ManageRiskReturn ==
    /\ rpc = "scan"
    /\ toScan = {}
    /\ rpc' = "done"
    /\ UNCHANGED <<Securities, OpenOrders, execVars, maximumDrawdownPercent, ctorArg,
                   callerTargets, targets, aliased, toScan, callSecurities,
                   callTargets, prevOut, calls>>

\* the caller calls ManageRisk again with the same list and the same securities
ManageRiskAgain ==
    /\ rpc = "done"
    /\ calls = 1
    /\ prevOut' = targets
    /\ calls' = 2
    /\ targets' = callerTargets
    /\ aliased' = TRUE
    /\ toScan' = DOMAIN Securities
    /\ rpc' = "scan"
    /\ UNCHANGED <<Securities, OpenOrders, execVars, maximumDrawdownPercent, ctorArg,
                   callerTargets, callSecurities, callTargets>>

\* the caller goes on with the returned list
ManageRiskEnd ==
    /\ rpc = "done"
    /\ rpc' = "idle"
    /\ callerTargets' = <<>>
    /\ targets' = <<>>
    /\ aliased' = TRUE
    /\ callSecurities' = EmptyMap
    /\ callTargets' = <<>>
    /\ prevOut' = None
    /\ calls' = 0
    /\ UNCHANGED <<Securities, OpenOrders, execVars, maximumDrawdownPercent, ctorArg,
                   toScan>>

\* The engine revalues a holding between two cycles.
UpdateHolding ==
    /\ rpc = "idle"
    /\ epc = "idle"
    /\ \E s \in DOMAIN Securities, inv \in BOOLEAN, pnl \in PnlValues :
        Securities' = [Securities EXCEPT
                         ![s].Invested = inv,
                         ![s].Quantity = IF inv THEN 1 ELSE 0,
                         ![s].UnrealizedProfitPercent = pnl]
    /\ UNCHANGED <<OpenOrders, execVars, riskVars>>

\* MaximumDrawdownPercentPerSecurity.OnSecuritiesChanged(algorithm, changes):
\* pass.  The engine has added a security to the data feed or removed one.
RiskOnSecuritiesChanged ==
    /\ rpc = "idle"
    /\ epc = "idle"
    /\ \/ \E s \in Symbols \ DOMAIN Securities :
            Securities' = Extend(Securities, s, NewSecurity)
       \/ \E s \in DOMAIN Securities :
            Securities' = Without(Securities, s)
    /\ UNCHANGED <<OpenOrders, execVars, riskVars>>

\* MaximumDrawdownPercentPerSecurity(maximumDrawdownPercent) is constructed
\* before the data feed has added a security.
InitRisk ==
    /\ Securities = EmptyMap
    /\ OpenOrders = <<>>
    /\ InitExecVars
    /\ InitRiskVars
    /\ ctorArg \in CtorArgs
    /\ maximumDrawdownPercent = Construct(ctorArg)

NextRisk ==
    \/ ManageRiskCall
    \/ ManageRiskSecurity
    \/ ManageRiskReturn
    \/ ManageRiskAgain
    \/ ManageRiskEnd
    \/ UpdateHolding
    \/ RiskOnSecuritiesChanged

SpecRisk == InitRisk /\ [][NextRisk]_vars


---------------------------------------------------------------------------
(* Properties of MaximumDrawdownPercentPerSecurity *)

\* the targets of ts for instrument s, in list order
OfSymbol(ts, s) == SelectSeq(ts, LAMBDA x : x.Symbol = s)

\* s was invested with a profit strictly below the threshold when ManageRisk
\* was called
Breached(s) ==
    /\ s \in DOMAIN callSecurities
    /\ callSecurities[s].Invested
    /\ callSecurities[s].UnrealizedProfitPercent < maximumDrawdownPercent

\* the targets of ts for the instruments that have not breached, in list order
Untouched(ts) == SelectSeq(ts, LAMBDA x : ~Breached(x.Symbol))

Count(ts, t) == Cardinality({i \in 1 .. Len(ts) : ts[i] = t})

\* the same targets, each as many times, in whatever order
SameTargets(a, b) ==
    /\ Len(a) = Len(b)
    /\ \A i \in 1 .. Len(a) : Count(a, a[i]) = Count(b, a[i])

\* C3: the list ManageRisk returns has, for every instrument that is invested
\* with a profit strictly below the threshold, exactly one target, of
\* quantity 0, whatever the input list held for it.
C3_OneLiquidationTarget ==
    rpc = "done" =>
        \A s \in Symbols :
            Breached(s) => OfSymbol(targets, s) = <<PortfolioTarget(s, 0)>>

\* C3 witness: ManageRisk has returned for a breached instrument the input
\* list had two targets for.
C3_Witness ==
    /\ rpc = "done"
    /\ \E s \in Symbols :
        /\ Breached(s)
        /\ Len(OfSymbol(callTargets, s)) = 2
        /\ callTargets[1] # callTargets[2]

\* C4: the targets of the instruments that are not invested, or whose profit
\* is at or above the threshold, or that have no security, are in the
\* returned list exactly as in the input list: the same targets, as many
\* times, in the same order, and nothing added.
C4_OthersUntouched ==
    rpc \in {"scan", "done"} => Untouched(targets) = Untouched(callTargets)

\* C4 witness: ManageRisk has returned; one instrument breached, the other
\* is invested with its profit exactly at the threshold and keeps its target.
C4_Witness ==
    /\ rpc = "done"
    /\ \E s, u \in Symbols :
        /\ Breached(s)
        /\ u \in DOMAIN callSecurities
        /\ callSecurities[u].Invested
        /\ callSecurities[u].UnrealizedProfitPercent = maximumDrawdownPercent
        /\ OfSymbol(callTargets, u) # <<>>
        /\ OfSymbol(callTargets, u)[1].Quantity # 0
        /\ OfSymbol(targets, u) = OfSymbol(callTargets, u)

\* C5: a second ManageRisk call with the same securities and the same input
\* list returns the same targets as the first, each as many times; the
\* targets of the instruments that have not breached are in the same order.
C5_SameOutputTwice ==
    (rpc = "done" /\ calls = 2) =>
        /\ SameTargets(targets, prevOut)
        /\ Untouched(targets) = Untouched(prevOut)

\* C5 witness: the second call has returned the liquidation targets of two
\* breached instruments in the other order than the first call.
C5_Witness ==
    /\ rpc = "done"
    /\ calls = 2
    /\ \A s \in Symbols : Breached(s)
    /\ callTargets # <<>>
    /\ targets # prevOut

\* C6: the stored threshold is -|m| for the constructor's argument m, so it
\* is never positive, in every state ManageRisk and OnSecuritiesChanged lead
\* to.
C6_ThresholdNormalized ==
    /\ maximumDrawdownPercent = (IF ctorArg < 0 THEN ctorArg ELSE -ctorArg)
    /\ maximumDrawdownPercent <= 0

\* C6 witness: constructed with a negative argument, ManageRisk has replaced
\* a target after the securities changed.
C6_Witness ==
    /\ ctorArg < 0
    /\ rpc = "done"
    /\ Securities # EmptyMap
    /\ targets # callTargets

\* C9: while ManageRisk runs and when it has returned, the caller's list and
\* the securities are as they were at the call, and no order was submitted.
C9_InputsNotMutated ==
    rpc \in {"scan", "done"} =>
        /\ callerTargets = callTargets
        /\ Securities = callSecurities
        /\ OpenOrders = <<>>
        /\ submitted = <<>>
        /\ orderCount = 0

\* C9 witness: ManageRisk has returned a list without the caller's target
\* for a breached instrument, and with a liquidation target added.
C9_Witness ==
    /\ rpc = "done"
    /\ \E s \in Symbols :
        /\ Breached(s)
        /\ OfSymbol(callerTargets, s) # <<>>
        /\ OfSymbol(callerTargets, s)[1].Quantity # 0
    /\ targets # callerTargets

=============================================================================
